---- MODULE Spec2Model ----
(***************************************************************************)
(* A model of ras_aggregation (src/aggregation.py): block-wise aggregation *)
(* of a raster band by an integer cell factor.                             *)
(*                                                                         *)
(* Numbers.  Raster values are integers; a value the aggregation handles   *)
(* is a record [nan, n, d, rt] that stands for not-a-number (nan = TRUE),  *)
(* or for the real n/d (rt = FALSE) or sqrt(n/d) (rt = TRUE), n/d in       *)
(* lowest terms.  The arithmetic is exact: rounding of float64 and of the  *)
(* float32 output band is not modelled.                                    *)
(* Indices are 0-based, as in the source.                                  *)
(***************************************************************************)
EXTENDS Integers, Sequences, FiniteSets, TLC

\* ------------------------------------------------------------- bounds
\* rows and cols of a small raster range over 1..MaxSmall
MaxSmall == 4
\* a long axis spans up to MaxTiles full blocks ...
MaxTiles == 2
\* ... plus 0..MaxRem further cells
MaxRem == 3
\* the short axis of a long raster ranges over 1..MaxShort
MaxShort == 3
\* a raster has at most MaxCells cells (one axis long, the other short)
MaxCells == 2000
\* the source raster holds the values 1..ValMod, repeating in row-major order
ValMod == 1000

\* ---------------------------------------------------- program constants
\* xBlockSize = yBlockSize = 200 * cellfact
BlockMult == 200
\* ND when the band declares none: -3.4028234663852886e+38, the most negative
\* float32, stood for by a value below every raster value
DefaultND == -2147483647
\* a NoData value a band declares
DeclaredND == -9999

\* the keys of the dictionary `functions`
functions == {"MAX", "MIN", "AVG", "SUM", "STD"}

\* ------------------------------------------------------------ numbers
RECURSIVE GCD(_, _)
GCD(a, b) == IF b = 0 THEN a ELSE GCD(b, a % b)

Abs(x) == IF x < 0 THEN -x ELSE x

NaN == [nan |-> TRUE, n |-> 0, d |-> 1, rt |-> FALSE]

\* the real n/d (d > 0), or its square root
Frac(n, d, rt) ==
    LET g == GCD(Abs(n), d)
    IN  [nan |-> FALSE, n |-> n \div g, d |-> d \div g, rt |-> rt]

Num(n) == Frac(n, 1, FALSE)

RECURSIVE SumSeq(_)
SumSeq(s) == IF s = <<>> THEN 0 ELSE Head(s) + SumSeq(Tail(s))

RECURSIVE SumSq(_)
SumSq(s) == IF s = <<>> THEN 0 ELSE Head(s) * Head(s) + SumSq(Tail(s))

SeqRange(s) == {s[k] : k \in 1..Len(s)}

MaxOf(s) == CHOOSE m \in SeqRange(s) : \A y \in SeqRange(s) : m >= y
MinOf(s) == CHOOSE m \in SeqRange(s) : \A y \in SeqRange(s) : m <= y

\* numpy.max/min/mean/sum/std over the numbers xs (none of them nan, xs not
\* empty); std is the population standard deviation (ddof = 0):
\* sqrt(mean((x - mean)^2)) = sqrt((N * sum(x^2) - sum(x)^2) / N^2)
Reduce(fn, xs) ==
    LET N == Len(xs)
    IN  CASE fn = "MAX" -> Num(MaxOf(xs))
          [] fn = "MIN" -> Num(MinOf(xs))
          [] fn = "AVG" -> Frac(SumSeq(xs), N, FALSE)
          [] fn = "SUM" -> Num(SumSeq(xs))
          [] fn = "STD" -> Frac(N * SumSq(xs) - SumSeq(xs) * SumSeq(xs), N * N, TRUE)

IsNum(v) == ~v.nan

\* the numbers of a sequence of cells
Numbers(cells) ==
    LET kept == SelectSeq(cells, IsNum)
    IN  [k \in 1..Len(kept) |-> kept[k].n]

\* numpy.<fn>: a nan among the cells makes the result nan
Plain(fn, cells) ==
    IF \E k \in 1..Len(cells) : cells[k].nan THEN NaN ELSE Reduce(fn, Numbers(cells))

\* numpy.nan<fn>: the nan cells are left out.  Over cells that are all nan the
\* result is nan, except that nansum gives 0 from numpy 1.9 on (allNanSum says
\* which numpy runs)
NanIgnoring(fn, cells, allNanSum) ==
    IF Numbers(cells) = <<>>
    THEN IF fn = "SUM" /\ allNanSum = "zero" THEN Num(0) ELSE NaN
    ELSE Reduce(fn, Numbers(cells))

\* "func = numpy.%s%s(...)" % (ign, functions[aggr_type])
Func(prop, fn, cells, allNanSum) ==
    IF prop THEN Plain(fn, cells) ELSE NanIgnoring(fn, cells, allNanSum)


\* --------------------------------------------------------------- state
VARIABLES
    cellfact,    \* argument: the cell factor
    aggr_type,   \* argument: the statistic's key
    expand,      \* argument: expand (TRUE) or reduce (FALSE) the output extent
    prop_nodata, \* argument: propagate (TRUE) or ignore (FALSE) NoData
    band,        \* the source raster: [rows, cols, nodata, mask]
    allNanSum,   \* the numpy that runs: nansum of all-nan cells is "nan" or "zero"
    pc,          \* position of ras_aggregation
    error,       \* the exception that ended the run, "" if none
    ND,          \* the NoData value in use
    outRows,     \* height the output is created with
    outCols,     \* width the output is created with
    i,           \* row offset of the current block
    j,           \* column offset of the current block
    numRows,     \* rows of the current block
    numCols,     \* columns of the current block
    aggr_array,  \* the aggregated block
    sink,        \* the output band: cell <<row, col>> |-> value written
    ioLog        \* the calls made to the source and to the output, in order

vars == <<cellfact, aggr_type, expand, prop_nodata, band, allNanSum, pc, error, ND,
          outRows, outCols, i, j, numRows, numCols, aggr_array, sink, ioLog>>

args == <<cellfact, aggr_type, expand, prop_nodata, band, allNanSum>>

\* ----------------------------------------------------------------- arrays
\* A two-dimensional numpy array is its shape <<rows, columns>> and its cells
\* in row-major order.
Array(nr, nc, flat) == [shape |-> <<nr, nc>>, flat |-> flat]

\* a[r, c]
At(a, r, c) == a.flat[r * a.shape[2] + c + 1]

\* numpy.array([[]])
Empty == Array(1, 0, <<>>)

\* ------------------------------------------------------ the source raster
\* the cells of the source that hold the band's NoData value
Masked(b, r, c) ==
    CASE b.mask = "none" -> FALSE
      [] b.mask = "all" -> TRUE
      [] b.mask = "last" -> r = b.rows - 1 /\ c = b.cols - 1
      [] b.mask = "diag" -> (r + c) % 3 = 1

\* band.GetNoDataValue(), and the default taken when it is None
NoDataValue(b) == IF b.nodata.declared THEN b.nodata.v ELSE DefaultND

\* the value the source holds at row r, column c
InCell(b, r, c) ==
    IF Masked(b, r, c) THEN NoDataValue(b) ELSE ((r * b.cols + c) % ValMod) + 1

\* band.ReadAsArray(xoff, yoff, xsize, ysize)
ReadAsArray(b, xoff, yoff, xsize, ysize) ==
    Array(ysize, xsize,
          [k \in 1..(ysize * xsize) |->
              InCell(b, yoff + ((k - 1) \div xsize), xoff + ((k - 1) % xsize))])

\* ---------------------------------------------------------------- inputs
NoDatas == {[declared |-> FALSE, v |-> 0], [declared |-> TRUE, v |-> DeclaredND]}

Band(shape, nd, m) == [rows |-> shape[1], cols |-> shape[2], nodata |-> nd, mask |-> m]

\* lengths that span one or more whole blocks and up to MaxRem further cells
LongDims(f) == {BlockMult * f * k + d : k \in 1..MaxTiles, d \in 0..MaxRem}

\* which numpy runs matters to nansum alone
AllNanSums(fn, prop) == IF fn = "SUM" /\ ~prop THEN {"nan", "zero"} ELSE {"nan"}

Run(f, fn, exp, prop, b, ans) ==
    [cellfact |-> f, aggr_type |-> fn, expand |-> exp, prop_nodata |-> prop,
     band |-> b, allNanSum |-> ans]

\* small rasters, every setting
SmallRuns ==
    {Run(f, fn, exp, prop, Band(s, nd, m), ans) :
        f \in {2, 3}, fn \in functions, exp \in BOOLEAN, prop \in BOOLEAN,
        s \in (1..MaxSmall) \X (1..MaxSmall), nd \in NoDatas,
        m \in {"none", "all", "last", "diag"}, ans \in {"nan", "zero"}}

\* rasters of several blocks along one axis, aggregated by f
LongRunsBy(f) ==
    {Run(f, fn, exp, prop, Band(s, [declared |-> FALSE, v |-> 0], m), ans) :
        fn \in functions, exp \in BOOLEAN, prop \in BOOLEAN,
        s \in (LongDims(f) \X (1..MaxShort)) \cup ((1..MaxShort) \X LongDims(f)),
        m \in {"none", "diag"}, ans \in {"nan", "zero"}}

LongRuns == LongRunsBy(2) \cup LongRunsBy(3)

\* calls with a cell factor or a statistic the function is not written for
BadRuns ==
    {r \in {Run(f, fn, exp, prop, Band(s, [declared |-> FALSE, v |-> 0], "last"), "nan") :
                f \in {0, 1, 2, 3}, fn \in functions \cup {"MEDIAN"}, exp \in BOOLEAN,
                prop \in BOOLEAN, s \in (1..MaxSmall) \X (1..MaxSmall)} :
        r.cellfact < 2 \/ r.aggr_type \notin functions}

Runs ==
    {r \in SmallRuns \cup LongRuns \cup BadRuns :
        /\ r.band.rows * r.band.cols <= MaxCells
        /\ r.allNanSum \in AllNanSums(r.aggr_type, r.prop_nodata)}

Init ==
    /\ \E r \in Runs :
          /\ cellfact = r.cellfact
          /\ aggr_type = r.aggr_type
          /\ expand = r.expand
          /\ prop_nodata = r.prop_nodata
          /\ band = r.band
          /\ allNanSum = r.allNanSum
    /\ pc = "open"
    /\ error = ""
    /\ ND = 0
    /\ outRows = 0
    /\ outCols = 0
    /\ i = 0
    /\ j = 0
    /\ numRows = 0
    /\ numCols = 0
    /\ aggr_array = Empty
    /\ sink = <<>>
    /\ ioLog = <<>>

\* ----------------------------------------------------------------- calls
\* a call to the source or to the output, with the window it is about
Call(op, xoff, yoff, xsize, ysize) ==
    [op |-> op, xoff |-> xoff, yoff |-> yoff, xsize |-> xsize, ysize |-> ysize]

\* ------------------------------------------------------------ GET INPUT INFO
\* gdal.Open ... ND = band.GetNoDataValue(), defaulted
Open ==
    /\ pc = "open"
    /\ ioLog' = Append(ioLog, Call("open", 0, 0, band.cols, band.rows))
    /\ ND' = NoDataValue(band)
    /\ pc' = "create"
    /\ UNCHANGED <<args, error, outRows, outCols, i, j, numRows, numCols, aggr_array,
                   sink>>

\* OutSize with the extent always reduced
OutSizeReduced(n, f, exp) == (n - (n % f)) \div f

\* ---------------------------------------------------------- SET OUTPUT EXTENT
\* outRows / outCols for an axis of n cells
OutSize(n, f, exp) ==
    IF exp THEN (n + f - (n % f)) \div f ELSE (n - (n % f)) \div f

\* rows % cellfact raises ZeroDivisionError for cellfact = 0; driver.Create
\* refuses a raster without cells and returns None, on which SetGeoTransform
\* raises AttributeError
Create ==
    /\ pc = "create"
    /\ IF cellfact = 0
       THEN /\ pc' = "failed"
            /\ error' = "ZeroDivisionError"
            /\ UNCHANGED <<outRows, outCols, ioLog>>
       ELSE /\ outRows' = OutSize(band.rows, cellfact, expand)
            /\ outCols' = OutSize(band.cols, cellfact, expand)
            /\ ioLog' = Append(ioLog, Call("create", 0, 0, outCols', outRows'))
            /\ IF outRows' < 1 \/ outCols' < 1
               THEN pc' = "failed" /\ error' = "AttributeError"
               ELSE pc' = "block" /\ error' = error
    /\ UNCHANGED <<args, ND, i, j, numRows, numCols, aggr_array, sink>>

\* ------------------------------------------------------------ BLOCK ITERATION
xBlockSize == BlockMult * cellfact
yBlockSize == BlockMult * cellfact

\* BlockLen without the test for a whole block: the rest of the axis
BlockLenRest(o, n, size) == n - o

\* numRows / numCols of the block at offset o of an axis of length n
BlockLen(o, n, size) == IF o + size < n THEN size ELSE n - o

\* numpy.where(array == ND, numpy.nan, array)
Where(array, nd) ==
    Array(array.shape[1], array.shape[2],
          [k \in 1..(array.shape[1] * array.shape[2]) |->
              IF array.flat[k] = nd THEN NaN ELSE Num(array.flat[k])])

\* ------------------------------------------------ EXPAND OR REMOVE ROWS AND COLS
\* NormLen with the axis expanded whatever expand says
NormLenExpanded(n, f, exp) == IF n % f # 0 THEN n + (f - (n % f)) ELSE n

\* length of an axis of n cells once it is expanded or reduced to a multiple of f
NormLen(n, f, exp) ==
    IF n % f # 0
    THEN IF exp THEN n + (f - (n % f)) ELSE n - (n % f)
    ELSE n

\* numpy.append(d, nan rows, 0) or d[0:-(numRows % cellfact), :]
NormRows(d, n, f, exp) ==
    LET nr == NormLen(n, f, exp)
        nc == d.shape[2]
    IN  Array(nr, nc,
              [k \in 1..(nr * nc) |->
                  IF (k - 1) \div nc < d.shape[1]
                  THEN At(d, (k - 1) \div nc, (k - 1) % nc)
                  ELSE NaN])

\* numpy.append(d, nan columns, 1) or d[:, 0:-(numCols % cellfact)]
NormCols(d, n, f, exp) ==
    LET nr == d.shape[1]
        nc == NormLen(n, f, exp)
    IN  Array(nr, nc,
              [k \in 1..(nr * nc) |->
                  IF (k - 1) % nc < d.shape[2]
                  THEN At(d, (k - 1) \div nc, (k - 1) % nc)
                  ELSE NaN])

\* the working array `data` of a block of numR x numC cells read as `array`
Normalized(array, nd, numR, numC, f, exp) ==
    NormCols(NormRows(Where(array, nd), numR, f, exp), numC, f, exp)

\* ------------------------------------------------------------------ AGGREGATION
\* len(range(0, n, step))
RangeLen(n, step) == (n + step - 1) \div step

\* d[x:f+x, y:f+y], row by row
Slice(d, x, y, f) ==
    LET h == IF x + f < d.shape[1] THEN f ELSE d.shape[1] - x
        w == IF y + f < d.shape[2] THEN f ELSE d.shape[2] - y
    IN  [k \in 1..(h * w) |-> At(d, x + ((k - 1) \div w), y + ((k - 1) % w))]

\* the values appended to aggr_array by the loops over x and y, in order
Appended(d, f, prop, fn, ans) ==
    LET nby == RangeLen(d.shape[2], f)
    IN  [k \in 1..(RangeLen(d.shape[1], f) * nby) |->
            Func(prop, fn, Slice(d, ((k - 1) \div nby) * f, ((k - 1) % nby) * f, f), ans)]

\* Reshape filling the array column by column
ReshapeByColumns(flat, nr, nc) ==
    Array(nr, nc, [k \in 1..(nr * nc) |-> flat[((k - 1) % nc) * nr + ((k - 1) \div nc) + 1]])

\* flat.reshape(nr, nc): the cells stay in their order
Reshape(flat, nr, nc) == Array(nr, nc, [k \in 1..(nr * nc) |-> flat[k]])

\* aggr_array of the working array d
Aggregated(d, f, prop, fn, ans) ==
    Reshape(Appended(d, f, prop, fn, ans), d.shape[1] \div f, d.shape[2] \div f)

\* One pass of the loops up to the aggregation: the block at (i, j) is read, its
\* NoData cells become nan, it is expanded or reduced to a multiple of the cell
\* factor and aggregated.  functions[aggr_type] raises KeyError in the first
\* sub-block when aggr_type is no key of functions.
ReadTile ==
    /\ pc = "block"
    /\ LET nR == BlockLen(i, band.rows, yBlockSize)
           nC == BlockLen(j, band.cols, xBlockSize)
           data == Normalized(ReadAsArray(band, j, i, nC, nR), ND, nR, nC, cellfact, expand)
       IN  /\ numRows' = nR
           /\ numCols' = nC
           /\ ioLog' = Append(ioLog, Call("read", j, i, nC, nR))
           /\ IF aggr_type \notin functions
                 /\ RangeLen(data.shape[1], cellfact) * RangeLen(data.shape[2], cellfact) > 0
              THEN /\ pc' = "failed"
                   /\ error' = "KeyError"
                   /\ UNCHANGED aggr_array
              ELSE /\ aggr_array' = Aggregated(data, cellfact, prop_nodata, aggr_type, allNanSum)
                   /\ pc' = "write"
                   /\ UNCHANGED error
    /\ UNCHANGED <<args, ND, outRows, outCols, i, j, sink>>

\* --------------------------------------------------------------- BLOCK WRITING
\* XOff taken from the row offset
XOffOfRows == i \div cellfact

\* WriteArray(aggr_array, j/cellfact, i/cellfact): offsets of the block in the output
XOff == j \div cellfact
YOff == i \div cellfact

\* the output band after array a is written with its corner at column xoff, row yoff
Written(s, a, xoff, yoff) ==
    LET cells == (yoff..(yoff + a.shape[1] - 1)) \X (xoff..(xoff + a.shape[2] - 1))
    IN  [q \in DOMAIN s \cup cells |->
            IF q \in cells THEN At(a, q[1] - yoff, q[2] - xoff) ELSE s[q]]

\* <<i, j>> of the next pass of the loops over i and j: the next block of the
\* row of blocks, or the first block of the next row of blocks
NextBlock ==
    IF j + xBlockSize < band.cols THEN <<i, j + xBlockSize>> ELSE <<i + yBlockSize, 0>>

\* the aggregated block is written and the loops move on to the next block
WriteTile ==
    /\ pc = "write"
    /\ ioLog' = Append(ioLog, Call("write", XOff, YOff, aggr_array.shape[2],
                                   aggr_array.shape[1]))
    /\ sink' = Written(sink, aggr_array, XOff, YOff)
    /\ i' = NextBlock[1]
    /\ j' = NextBlock[2]
    /\ pc' = IF i' < band.rows THEN "block" ELSE "close"
    /\ UNCHANGED <<args, error, ND, outRows, outCols, numRows, numCols, aggr_array>>

\* outDataset = None
Close ==
    /\ pc = "close"
    /\ ioLog' = Append(ioLog, Call("close", 0, 0, 0, 0))
    /\ pc' = "done"
    /\ UNCHANGED <<args, error, ND, outRows, outCols, i, j, numRows, numCols,
                   aggr_array, sink>>

Next == Open \/ Create \/ ReadTile \/ WriteTile \/ Close

Spec == Init /\ [][Next]_vars

\* ================================================================ properties
IsRead(c) == c.op = "read"
IsWrite(c) == c.op = "write"
IsCreate(c) == c.op = "create"

Reads == SelectSeq(ioLog, IsRead)
Writes == SelectSeq(ioLog, IsWrite)

\* the arguments the function is documented for
ValidArgs == cellfact > 1 /\ aggr_type \in functions

Ceil(n, f) == (n + f - 1) \div f
Floor(n, f) == n \div f

\* the source cell at row r, column c as the aggregation is to see it: missing
\* when it holds the band's NoData value or lies beyond the raster
SourceCell(r, c) ==
    IF r < band.rows /\ c < band.cols /\ InCell(band, r, c) # NoDataValue(band)
    THEN Num(InCell(band, r, c))
    ELSE NaN

\* the cells of rows r*F..r*F+F-1 and columns c*F..c*F+F-1, row by row
BlockCells(r, c) ==
    [k \in 1..(cellfact * cellfact) |->
        SourceCell(r * cellfact + ((k - 1) \div cellfact),
                   c * cellfact + ((k - 1) % cellfact))]

\* the selected statistic over the block of output cell (r, c)
BlockStatistic(r, c) == Func(prop_nodata, aggr_type, BlockCells(r, c), allNanSum)

\* rectangles [xoff, xoff + xsize) x [yoff, yoff + ysize) of two calls share a cell
Overlap(a, b) ==
    /\ a.xoff < b.xoff + b.xsize /\ b.xoff < a.xoff + a.xsize
    /\ a.yoff < b.yoff + b.ysize /\ b.yoff < a.yoff + a.ysize

Covers(a, r, c) ==
    /\ a.yoff <= r /\ r < a.yoff + a.ysize
    /\ a.xoff <= c /\ c < a.xoff + a.xsize

\* C1: once the run is done, every output cell that was written holds the
\* selected statistic over the F x F block of source cells it stands for, cells
\* beyond the raster counted as missing, however the raster was cut into blocks;
\* the 4x4 raster 1..16 with factor 2, SUM, reduced extent gives [[14,22],[46,54]]
C1_BlockStatistic ==
    (pc = "done" /\ ValidArgs) =>
        /\ \A q \in DOMAIN sink : sink[q] = BlockStatistic(q[1], q[2])
        /\ (/\ band.rows = 4 /\ band.cols = 4 /\ band.mask = "none"
            /\ cellfact = 2 /\ aggr_type = "SUM" /\ ~expand)
              => sink = (<<0, 0>> :> Num(14)) @@ (<<0, 1>> :> Num(22))
                          @@ (<<1, 0>> :> Num(46)) @@ (<<1, 1>> :> Num(54))

\* a finished run of several blocks that wrote a number in a block after the first
C1_Witness ==
    /\ pc = "done" /\ ValidArgs
    /\ Len(Writes) >= 2
    /\ \E q \in DOMAIN sink : (q[1] >= BlockMult \/ q[2] >= BlockMult) /\ ~sink[q].nan

\* C2: the output is created with ceil(rows/F) x ceil(cols/F) cells when expand
\* is set and with floor(rows/F) x floor(cols/F) cells otherwise
C2_OutputDims ==
    cellfact > 1 =>
        \A k \in 1..Len(ioLog) :
            IsCreate(ioLog[k]) =>
                IF expand
                THEN /\ ioLog[k].ysize = Ceil(band.rows, cellfact)
                     /\ ioLog[k].xsize = Ceil(band.cols, cellfact)
                ELSE /\ ioLog[k].ysize = Floor(band.rows, cellfact)
                     /\ ioLog[k].xsize = Floor(band.cols, cellfact)

\* C3: with a cell factor that is no integer > 1 or a statistic that is no key
\* of functions, the call fails before it opens, reads, creates or writes
C3_FailFast == ~ValidArgs => (ioLog = <<>> /\ pc # "done")

\* C4: when a run completes, every cell of the outRows x outCols output that was
\* created has been written
C4_Complete ==
    (pc = "done" /\ ValidArgs) =>
        DOMAIN sink = (0..outRows - 1) \X (0..outCols - 1)

\* C5: no not-a-number is passed to the output: a result that is not-a-number
\* is written as the NoData value
C5_NoNaNWritten ==
    ValidArgs => \A q \in DOMAIN sink : ~sink[q].nan

\* the source cells of the block of output cell (r, c) that hold NoData
NoDataIn(r, c) ==
    {k \in 1..(cellfact * cellfact) : BlockCells(r, c)[k].nan}

\* the block of output cell (r, c) lies inside the raster
Inside(r, c) ==
    (r + 1) * cellfact <= band.rows /\ (c + 1) * cellfact <= band.cols

\* C6: an output cell whose block holds exactly one NoData cell is NoData when
\* NoData propagates, and the statistic over the other F*F-1 cells when not
C6_OneNoData ==
    ValidArgs =>
        \A q \in DOMAIN sink :
            (Inside(q[1], q[2]) /\ Cardinality(NoDataIn(q[1], q[2])) = 1) =>
                IF prop_nodata
                THEN sink[q] = Num(ND)
                ELSE sink[q] = Reduce(aggr_type, Numbers(BlockCells(q[1], q[2])))

\* the write at position k of the log is of a block that, with the extent
\* reduced, had fewer rows or fewer columns than the cell factor
ShortBlock(k) ==
    /\ k > 1 /\ IsWrite(ioLog[k]) /\ IsRead(ioLog[k - 1])
    /\ ~expand /\ cellfact > 1
    /\ ioLog[k - 1].ysize < cellfact \/ ioLog[k - 1].xsize < cellfact

\* C7 as stated: with the extent reduced, no write is issued for a trailing
\* block with fewer rows or columns than the cell factor
C7_NoWriteIssued == \A k \in 1..Len(ioLog) : ~ShortBlock(k)

\* C7, amended: the write issued for such a block carries an array without
\* rows (too few rows) or without columns (too few columns), so it writes no
\* cell and leaves the output as it was
C7_EmptyWrite ==
    \A k \in 1..Len(ioLog) :
        ShortBlock(k) =>
            /\ ioLog[k - 1].ysize < cellfact => ioLog[k].ysize = 0
            /\ ioLog[k - 1].xsize < cellfact => ioLog[k].xsize = 0
            /\ k = Len(ioLog) =>
                  /\ aggr_array.flat = <<>>
                  /\ \A q \in DOMAIN sink :
                        \E m \in 1..(k - 1) :
                            IsWrite(ioLog[m]) /\ Covers(ioLog[m], q[1], q[2])

C7_Witness == \E k \in 1..Len(ioLog) : ShortBlock(k)

\* C8: the blocks read lie in the raster and no two of them share a cell; each
\* starts at a multiple of the cell factor, and only a block that ends at the
\* raster's edge has a length that is no multiple of it; once the loops are
\* over, every cell of the raster lies in exactly one block read
C8_Partition ==
    cellfact > 1 =>
        /\ \A k \in 1..Len(ioLog) :
              LET t == ioLog[k]
              IN  IsRead(t) =>
                  /\ t.xsize >= 1 /\ t.ysize >= 1
                  /\ t.yoff + t.ysize <= band.rows /\ t.xoff + t.xsize <= band.cols
                  /\ t.yoff % cellfact = 0 /\ t.xoff % cellfact = 0
                  /\ t.ysize % cellfact # 0 => t.yoff + t.ysize = band.rows
                  /\ t.xsize % cellfact # 0 => t.xoff + t.xsize = band.cols
                  /\ \A m \in 1..(k - 1) : IsRead(ioLog[m]) => ~Overlap(ioLog[m], t)
        /\ pc = "close" =>
              \A r \in 0..(band.rows - 1), c \in 0..(band.cols - 1) :
                  Cardinality({k \in 1..Len(ioLog) :
                                  IsRead(ioLog[k]) /\ Covers(ioLog[k], r, c)}) = 1

\* the loops are over after several blocks, the last one shorter than the others
C8_Witness ==
    /\ pc = "close" /\ cellfact > 1
    /\ Len(Reads) >= 3
    /\ Reads[Len(Reads)].ysize % cellfact # 0 \/ Reads[Len(Reads)].xsize % cellfact # 0

\* the array the function makes of the block a read returned
ResultOf(t) ==
    Aggregated(Normalized(ReadAsArray(band, t.xoff, t.yoff, t.xsize, t.ysize),
                          NoDataValue(band), t.ysize, t.xsize, cellfact, expand),
               cellfact, prop_nodata, aggr_type, allNanSum)

\* C9: after the source is opened and the output created, reads and writes
\* alternate, one block at a time: every write follows the read of its block
\* and carries that block's result to that block's place, and the next read
\* is of the next block, left to right in a row of blocks and then down
C9_OneTileAtATime ==
    \A k \in 1..Len(ioLog) :
        LET c == ioLog[k]
        IN  /\ k = 1 => c.op = "open"
            /\ k = 2 => c.op = "create"
            /\ c.op = "close" => k = Len(ioLog) /\ IsWrite(ioLog[k - 1])
            /\ IsRead(c) => k > 2 /\ ~IsRead(ioLog[k - 1])
            /\ IsWrite(c) =>
                  /\ IsRead(ioLog[k - 1])
                  /\ c.xoff = ioLog[k - 1].xoff \div cellfact
                  /\ c.yoff = ioLog[k - 1].yoff \div cellfact
                  /\ k = Len(ioLog) =>
                        LET res == ResultOf(ioLog[k - 1])
                        IN  /\ c.ysize = res.shape[1] /\ c.xsize = res.shape[2]
                            /\ \A a \in 0..(c.ysize - 1), b \in 0..(c.xsize - 1) :
                                  sink[<<c.yoff + a, c.xoff + b>>] = At(res, a, b)
            /\ (IsRead(c) /\ IsWrite(ioLog[k - 1])) =>
                  LET p == ioLog[k - 2]
                  IN  \/ c.yoff = p.yoff /\ c.xoff = p.xoff + p.xsize
                      \/ /\ c.yoff = p.yoff + p.ysize /\ c.xoff = 0
                         /\ p.xoff + p.xsize = band.cols

\* the second block of a run has been written
C9_Witness == Len(Writes) >= 2 /\ pc \in {"block", "close"} /\ ValidArgs

\* C10: every write lies in the output that was created, and no two writes
\* share an output cell
C10_WritesInside ==
    cellfact > 1 =>
        \A k \in 1..Len(ioLog) :
            LET w == ioLog[k]
            IN  IsWrite(w) =>
                /\ w.yoff >= 0 /\ w.xoff >= 0
                /\ w.yoff + w.ysize <= outRows
                /\ w.xoff + w.xsize <= outCols
                /\ \A m \in 1..(k - 1) : IsWrite(ioLog[m]) => ~Overlap(ioLog[m], w)

\* several blocks were written, the last one up to the corner of the output
C10_Witness ==
    /\ cellfact > 1 /\ Len(Writes) >= 2
    /\ LET w == Writes[Len(Writes)]
       IN  w.ysize >= 1 /\ w.xsize >= 1
           /\ w.yoff + w.ysize = outRows /\ w.xoff + w.xsize = outCols

====
